---- MODULE Spec2Model ----
(***************************************************************************)
(* Model of src/app.py (Bomb Chip Challenge): the GameInstance board, the  *)
(* in-memory USERS_DB / GAME_SESSIONS dictionaries, DATA_LOCK and the      *)
(* command processor handle_command, executed by the request threads of    *)
(* the Flask server (app.run(..., threaded=True)).                         *)
(*                                                                         *)
(* handle_command takes no lock of its own, so a request thread can be     *)
(* pre-empted between any two reads or writes of the shared dictionaries   *)
(* and boards.  Every such read or write is one action below; Spec lets    *)
(* the threads interleave freely, SeqSpec runs the same actions with one   *)
(* command in flight at a time.                                            *)
(*                                                                         *)
(* The board is scaled: total_chips is 12 in the source; here it is        *)
(* MaxChips, so that the shuffled grids and the reveal sets stay           *)
(* enumerable.  bomb_count keeps its source value.  A run holds at most    *)
(* MaxCmds commands, two request threads (Threads), one session uid        *)
(* (Users) and two GameInstance objects (BoardIds, the heap of boards:     *)
(* GAME_SESSIONS and the threads' locals hold references into it).         *)
(***************************************************************************)
EXTENDS Integers, Sequences, FiniteSets, TLC

\* ---------------------------------------------------------------- bounds
MaxChips == 5
MaxCmds == 3

\* -------------------------------------------------------------- constants
total_chips == MaxChips
bomb_count == 3
SafeGain == 10
WinGain == 100
BombPenalty == 50

Users == {"u1"}
Threads == 1..2
BoardIds == 1..2
Chips == 0..(total_chips - 1)

VARIABLES USERS_DB, GAME_SESSIONS, boards, DATA_LOCK, thr, mutated, ncmds, conn

vars == <<USERS_DB, GAME_SESSIONS, boards, DATA_LOCK, thr, mutated, ncmds, conn>>
shared == <<USERS_DB, GAME_SESSIONS, boards>>

\* ------------------------------------------------------- GameInstance data
\* random.shuffle of [0]*(total_chips-bomb_count) + [1]*bomb_count: any
\* placement of bomb_count bombs.
Grids == {g \in [Chips -> {0, 1}] : Cardinality({i \in Chips : g[i] = 1}) = bomb_count}

GameInstanceNoOwner(user_id, g) ==
  [user_id |-> "", grid |-> g, revealed |-> [i \in Chips |-> FALSE],
   status |-> "ACTIVE", score_gain |-> 0]

GameInstance(user_id, g) ==
  [user_id |-> user_id, grid |-> g, revealed |-> [i \in Chips |-> FALSE],
   status |-> "ACTIVE", score_gain |-> 0]

safe_chips_total == total_chips - bomb_count

safe_chips_found(b) == Cardinality({i \in Chips : b.revealed[i] /\ b.grid[i] = 0})

RevealedCount(b) == Cardinality({i \in Chips : b.revealed[i]})

\* ------------------------------------------------------------ command text
DecStr == <<"0", "1", "2", "3", "4", "5", "6", "7", "8", "9", "10", "11", "12", "13">>
NumericCmds == {DecStr[i + 1] : i \in 0..(total_chips + 1)}
RawCmds == NumericCmds \cup {"/bombchip", " /BombChip ", "/score", "/ladder", "/leaderboard", "hello"}

\* cmd.strip().lower() on the raw bodies above
Normalize(raw) == IF raw = " /BombChip " THEN "/bombchip" ELSE raw

\* int(cmd): defined on the decimal strings, ValueError otherwise
IsInt(c) == c \in NumericCmds
IntOf(c) == CHOOSE i \in 0..(total_chips + 1) : DecStr[i + 1] = c

\* ------------------------------------------------------------------ stats
NewStats == [score |-> 0, wins |-> 0, losses |-> 0, bombs |-> 0, total_games |-> 0]

Max(a, b) == IF a >= b THEN a ELSE b

ScoreAfterNoClamp(score, score_change) == score + score_change

\* line 291
ScoreAfter(score, score_change) == Max(0, score + score_change)

StatsAfterCountsEveryMove(u, result, score_change) ==
  [score |-> ScoreAfter(u.score, score_change),
   wins |-> IF result = "WIN" THEN u.wins + 1 ELSE u.wins,
   losses |-> IF result = "LOST" THEN u.losses + 1 ELSE u.losses,
   bombs |-> IF result = "LOST" THEN u.bombs + 1 ELSE u.bombs,
   total_games |-> u.total_games + 1]

StatsAfter(u, result, score_change) ==
  [score |-> ScoreAfter(u.score, score_change),
   wins |-> IF result = "WIN" THEN u.wins + 1 ELSE u.wins,
   losses |-> IF result = "LOST" THEN u.losses + 1 ELSE u.losses,
   bombs |-> IF result = "LOST" THEN u.bombs + 1 ELSE u.bombs,
   total_games |-> IF result \in {"WIN", "LOST"} THEN u.total_games + 1 ELSE u.total_games]

DictSet(d, k, v) == [x \in (DOMAIN d) \cup {k} |-> IF x = k THEN v ELSE d[x]]
DictDel(d, k) == [x \in (DOMAIN d) \ {k} |-> d[x]]

\* ---------------------------------------------------------- thread locals
IdleThread ==
  [pc |-> "idle", uid |-> "", cmd |-> "", val |-> 0, tmp |-> 0, game |-> 0,
   res |-> "", a_status |-> "", a_gain |-> 0, reply |-> "",
   pre |-> <<>>, enteredInactive |-> FALSE, expectReject |-> FALSE,
   seen |-> <<>>, export |-> <<>>]

\* A player who has made six safe reveals over earlier, abandoned games (each
\* start replaces the board, so any multiple of SafeGain is reachable with
\* all counters still 0).
Veteran == [NewStats EXCEPT !.score = 6 * SafeGain]

\* lines 38-44: the dictionaries start empty, the lock free
\* the chat connection before the bot is activated
NoConnection == [state |-> "Disconnected", attempt |-> 0, log |-> <<>>]

Init ==
  /\ USERS_DB = <<>>
  /\ GAME_SESSIONS = <<>>
  /\ boards = <<>>
  /\ DATA_LOCK = 0
  /\ thr = [t \in Threads |-> IdleThread]
  /\ mutated = [t \in Threads |-> FALSE]
  /\ ncmds = 0
  /\ conn = NoConnection

\* Init, or the state a run reaches that made "u1" a Veteran and left no
\* game behind: a loss with a score above BombPenalty is then within the
\* command bound.
SeqInit ==
  /\ USERS_DB \in {<<>>, [u \in {"u1"} |-> Veteran]}
  /\ GAME_SESSIONS = <<>>
  /\ boards = <<>>
  /\ DATA_LOCK = 0
  /\ thr = [t \in Threads |-> IdleThread]
  /\ mutated = [t \in Threads |-> FALSE]
  /\ ncmds = 0
  /\ conn = NoConnection

At(t, l) == thr[t].pc = l
Goto(t, l) == thr' = [thr EXCEPT ![t].pc = l]
Return(t, r) == thr' = [thr EXCEPT ![t].pc = "done", ![t].reply = r]

\* history: has this command, so far, changed a dictionary or a board?
Track(t) == mutated' = [mutated EXCEPT ![t] = @ \/ (shared' # shared)]

StartsPending == Cardinality({t \in Threads : thr[t].pc = "start_store"})

\* lines 343-351: where a command that is no start and no move ends up; the
\* decision reads only the thread's own cmd
Standard(t) ==
  IF thr[t].cmd = "/score" THEN Goto(t, "gs_lock")
  ELSE IF thr[t].cmd \in {"/ladder", "/leaderboard"} THEN Return(t, "link")
  ELSE Return(t, "text_unknown")

\* history: by the state in which the request arrives, is cmd a move that has
\* to be rejected (no active game, index out of range, chip already open)?
MustReject(u, c) ==
  /\ IsInt(c)
  /\ \/ u \notin DOMAIN GAME_SESSIONS
     \/ boards[GAME_SESSIONS[u]].status # "ACTIVE"
     \/ IntOf(c) < 1
     \/ IntOf(c) > total_chips
     \/ boards[GAME_SESSIONS[u]].revealed[IntOf(c) - 1]

\* ----------------------------------------------- api_msg -> handle_command
\* A request arrives for the session uid u with body raw and is given to the
\* request thread t; line 301 normalises the body and line 304
\* compares it with the start keyword (both thread-local).  With snap the
\* history fields pre (the sender's stats) and expectReject are recorded;
\* they mean something only while no other command is in flight.
Accept(t, u, raw, snap) ==
  /\ At(t, "idle")
  /\ ncmds < MaxCmds
  /\ Normalize(raw) = "/bombchip" => Len(boards) + StartsPending < Cardinality(BoardIds)
  /\ thr' = [thr EXCEPT ![t] = [IdleThread EXCEPT !.pc = IF Normalize(raw) = "/bombchip" THEN "start_store" ELSE "chk_in",
                                   !.uid = u,
                                   !.cmd = Normalize(raw),
                                   !.pre = IF snap /\ u \in DOMAIN USERS_DB THEN <<USERS_DB[u]>> ELSE <<>>,
                                   !.expectReject = snap /\ MustReject(u, Normalize(raw))]]
  /\ mutated' = [mutated EXCEPT ![t] = FALSE]
  /\ ncmds' = ncmds + 1
  /\ UNCHANGED <<USERS_DB, GAME_SESSIONS, boards, DATA_LOCK, conn>>

\* Request threads are interchangeable: the request goes to the first free one.
Arrive(t, u, raw, snap) ==
  /\ \A s \in Threads : s < t => ~At(s, "idle")
  /\ Accept(t, u, raw, snap)

Begin(t, u, raw) == Arrive(t, u, raw, FALSE)

\* line 305: GAME_SESSIONS[uid] = GameInstance(uid)
StartStore(t) ==
  /\ At(t, "start_store")
  /\ \E g \in Grids :
       /\ boards' = Append(boards, GameInstance(thr[t].uid, g))
       /\ GAME_SESSIONS' = DictSet(GAME_SESSIONS, thr[t].uid, Len(boards) + 1)
  /\ Goto(t, "start_render")
  /\ UNCHANGED <<USERS_DB, DATA_LOCK, ncmds, conn>>
  /\ Track(t)

\* line 306: create_board_image(GAME_SESSIONS[uid]); lines 307-311
StartRender(t) ==
  /\ At(t, "start_render")
  /\ Return(t, IF thr[t].uid \in DOMAIN GAME_SESSIONS THEN "image_start" ELSE "KeyError")
  /\ UNCHANGED <<USERS_DB, GAME_SESSIONS, boards, DATA_LOCK, ncmds, conn>>
  /\ Track(t)

\* line 314, left operand: uid in GAME_SESSIONS
CheckIn(t) ==
  /\ At(t, "chk_in")
  /\ IF thr[t].uid \in DOMAIN GAME_SESSIONS THEN Goto(t, "chk_get") ELSE Standard(t)
  /\ UNCHANGED <<USERS_DB, GAME_SESSIONS, boards, DATA_LOCK, ncmds, conn>>
  /\ Track(t)

\* line 314, right operand: GAME_SESSIONS[uid]
CheckGet(t) ==
  /\ At(t, "chk_get")
  /\ IF thr[t].uid \in DOMAIN GAME_SESSIONS
       THEN thr' = [thr EXCEPT ![t].pc = "chk_status", ![t].tmp = GAME_SESSIONS[thr[t].uid]]
       ELSE Return(t, "KeyError")
  /\ UNCHANGED <<USERS_DB, GAME_SESSIONS, boards, DATA_LOCK, ncmds, conn>>
  /\ Track(t)

\* line 314, right operand: .status == "ACTIVE"; lines 315-316, 340-341:
\* val = int(cmd) - 1, a ValueError falls through to the standard commands
CheckStatus(t) ==
  /\ At(t, "chk_status")
  /\ IF boards[thr[t].tmp].status = "ACTIVE" /\ IsInt(thr[t].cmd)
       THEN thr' = [thr EXCEPT ![t].pc = "get_game", ![t].tmp = 0,
                               ![t].val = IntOf(thr[t].cmd) - 1]
       ELSE Standard(t)
  /\ UNCHANGED <<USERS_DB, GAME_SESSIONS, boards, DATA_LOCK, ncmds, conn>>
  /\ Track(t)

\* line 317: game = GAME_SESSIONS[uid]
GetGame(t) ==
  /\ At(t, "get_game")
  /\ IF thr[t].uid \in DOMAIN GAME_SESSIONS
       THEN thr' = [thr EXCEPT ![t].pc = "pm_check", ![t].game = GAME_SESSIONS[thr[t].uid]]
       ELSE Return(t, "KeyError")
  /\ UNCHANGED <<USERS_DB, GAME_SESSIONS, boards, DATA_LOCK, ncmds, conn>>
  /\ Track(t)

\* --------------------------------------------- GameInstance.process_move
Rejections == {"INVALID_INDEX", "ALREADY_OPEN"}
Accepted == {"SAFE", "WIN", "BOMB"}

process_move_check_no_repeat(b, chip_index) ==
  IF ~(0 <= chip_index /\ chip_index < total_chips) THEN "INVALID_INDEX" ELSE ""

\* lines 76-79: the two rejections, "" when the move goes on
process_move_check(b, chip_index) ==
  IF ~(0 <= chip_index /\ chip_index < total_chips) THEN "INVALID_INDEX"
  ELSE IF b.revealed[chip_index] THEN "ALREADY_OPEN"
  ELSE ""

\* line 83
is_bomb(b, chip_index) == b.grid[chip_index] = 1

WinConditionOneShort(b) == safe_chips_found(b) = safe_chips_total - 1
WinConditionAllChips(b) == safe_chips_found(b) = total_chips

\* lines 91-94
WinCondition(b) == safe_chips_found(b) = safe_chips_total

RejectReply(r) == IF r = "INVALID_INDEX" THEN "text_invalid" ELSE "text_already"

\* lines 76-79, and lines 321-324 of the caller for a rejection
PmCheck(t) ==
  /\ At(t, "pm_check")
  /\ LET r == process_move_check(boards[thr[t].game], thr[t].val)
         inactive == boards[thr[t].game].status # "ACTIVE"
     IN IF r # ""
          THEN thr' = [thr EXCEPT ![t].pc = "done", ![t].res = r, ![t].reply = RejectReply(r),
                                  ![t].enteredInactive = inactive]
          ELSE thr' = [thr EXCEPT ![t].pc = "pm_reveal", ![t].enteredInactive = inactive]
  /\ UNCHANGED <<USERS_DB, GAME_SESSIONS, boards, DATA_LOCK, ncmds, conn>>
  /\ Track(t)

RevealAll(b, chip_index) == [b EXCEPT !.revealed = [i \in Chips |-> TRUE]]

\* line 82: self.revealed[chip_index] = True
Reveal(b, chip_index) == [b EXCEPT !.revealed[chip_index] = TRUE]

\* lines 82-85, 89: the grid never changes, so is_bomb is read in the same step
PmReveal(t) ==
  /\ At(t, "pm_reveal")
  /\ boards' = [boards EXCEPT ![thr[t].game] = Reveal(@, thr[t].val)]
  /\ Goto(t, IF is_bomb(boards[thr[t].game], thr[t].val) THEN "pm_lost" ELSE "pm_count")
  /\ UNCHANGED <<USERS_DB, GAME_SESSIONS, DATA_LOCK, ncmds, conn>>
  /\ Track(t)

\* line 86
PmLost(t) ==
  /\ At(t, "pm_lost")
  /\ boards' = [boards EXCEPT ![thr[t].game].status = "LOST"]
  /\ Goto(t, "pm_lost_gain")
  /\ UNCHANGED <<USERS_DB, GAME_SESSIONS, DATA_LOCK, ncmds, conn>>
  /\ Track(t)

\* lines 87-88
PmLostGain(t) ==
  /\ At(t, "pm_lost_gain")
  /\ boards' = [boards EXCEPT ![thr[t].game].score_gain = -BombPenalty]
  /\ thr' = [thr EXCEPT ![t].pc = "arg_status", ![t].res = "BOMB"]
  /\ UNCHANGED <<USERS_DB, GAME_SESSIONS, DATA_LOCK, ncmds, conn>>
  /\ Track(t)

\* lines 91-94
PmCount(t) ==
  /\ At(t, "pm_count")
  /\ Goto(t, IF WinCondition(boards[thr[t].game]) THEN "pm_won" ELSE "pm_safe_gain")
  /\ UNCHANGED <<USERS_DB, GAME_SESSIONS, boards, DATA_LOCK, ncmds, conn>>
  /\ Track(t)

\* line 95
PmWon(t) ==
  /\ At(t, "pm_won")
  /\ boards' = [boards EXCEPT ![thr[t].game].status = "WON"]
  /\ Goto(t, "pm_won_gain")
  /\ UNCHANGED <<USERS_DB, GAME_SESSIONS, DATA_LOCK, ncmds, conn>>
  /\ Track(t)

\* lines 96-97
PmWonGain(t) ==
  /\ At(t, "pm_won_gain")
  /\ boards' = [boards EXCEPT ![thr[t].game].score_gain = WinGain]
  /\ thr' = [thr EXCEPT ![t].pc = "arg_status", ![t].res = "WIN"]
  /\ UNCHANGED <<USERS_DB, GAME_SESSIONS, DATA_LOCK, ncmds, conn>>
  /\ Track(t)

\* lines 99-100
PmSafeGain(t) ==
  /\ At(t, "pm_safe_gain")
  /\ boards' = [boards EXCEPT ![thr[t].game].score_gain = SafeGain]
  /\ thr' = [thr EXCEPT ![t].pc = "arg_status", ![t].res = "SAFE"]
  /\ UNCHANGED <<USERS_DB, GAME_SESSIONS, DATA_LOCK, ncmds, conn>>
  /\ Track(t)

\* ------------------------------------- handle_command, the valid-move tail
\* line 327, first argument: game.status
ArgStatus(t) ==
  /\ At(t, "arg_status")
  /\ thr' = [thr EXCEPT ![t].pc = "arg_gain", ![t].a_status = boards[thr[t].game].status]
  /\ UNCHANGED <<USERS_DB, GAME_SESSIONS, boards, DATA_LOCK, ncmds, conn>>
  /\ Track(t)

\* line 327, second argument: game.score_gain
ArgGain(t) ==
  /\ At(t, "arg_gain")
  /\ thr' = [thr EXCEPT ![t].pc = "us_lock", ![t].a_gain = boards[thr[t].game].score_gain]
  /\ UNCHANGED <<USERS_DB, GAME_SESSIONS, boards, DATA_LOCK, ncmds, conn>>
  /\ Track(t)

AcquireNoWait(t) == DATA_LOCK' = t

\* with DATA_LOCK (lines 272, 288, 398): blocks until the lock is free
Acquire(t) ==
  /\ DATA_LOCK = 0
  /\ DATA_LOCK' = t

\* line 288: with DATA_LOCK (acquire)
UpdateStatsLock(t) ==
  /\ At(t, "us_lock")
  /\ Acquire(t)
  /\ Goto(t, "us_body")
  /\ UNCHANGED <<USERS_DB, GAME_SESSIONS, boards, ncmds, conn>>
  /\ Track(t)

\* lines 289-297, and the release at the end of the with block
UpdateStatsBody(t) ==
  /\ At(t, "us_body")
  /\ DATA_LOCK = t
  /\ USERS_DB' = IF thr[t].uid \in DOMAIN USERS_DB
                   THEN [USERS_DB EXCEPT ![thr[t].uid] = StatsAfter(@, thr[t].a_status, thr[t].a_gain)]
                   ELSE USERS_DB
  /\ DATA_LOCK' = 0
  /\ Goto(t, "chk_won")
  /\ UNCHANGED <<GAME_SESSIONS, boards, ncmds, conn>>
  /\ Track(t)

\* line 330 (line 328 renders the board and changes nothing)
CheckWon(t) ==
  /\ At(t, "chk_won")
  /\ Goto(t, IF boards[thr[t].game].status = "WON" THEN "del_won" ELSE "chk_lost")
  /\ UNCHANGED <<USERS_DB, GAME_SESSIONS, boards, DATA_LOCK, ncmds, conn>>
  /\ Track(t)

CleanupSkipped(d, uid) == d
CleanupAll(d, uid) == <<>>

\* del GAME_SESSIONS[uid]
Cleanup(d, uid) == DictDel(d, uid)

\* lines 331-332
DelWon(t) ==
  /\ At(t, "del_won")
  /\ IF thr[t].uid \in DOMAIN GAME_SESSIONS
       THEN GAME_SESSIONS' = Cleanup(GAME_SESSIONS, thr[t].uid) /\ Return(t, "image_win")
       ELSE UNCHANGED GAME_SESSIONS /\ Return(t, "KeyError")
  /\ UNCHANGED <<USERS_DB, boards, DATA_LOCK, ncmds, conn>>
  /\ Track(t)

\* lines 334, 338
CheckLost(t) ==
  /\ At(t, "chk_lost")
  /\ IF boards[thr[t].game].status = "LOST" THEN Goto(t, "del_lost") ELSE Return(t, "image_safe")
  /\ UNCHANGED <<USERS_DB, GAME_SESSIONS, boards, DATA_LOCK, ncmds, conn>>
  /\ Track(t)

\* lines 335-336
DelLost(t) ==
  /\ At(t, "del_lost")
  /\ IF thr[t].uid \in DOMAIN GAME_SESSIONS
       THEN GAME_SESSIONS' = Cleanup(GAME_SESSIONS, thr[t].uid) /\ Return(t, "image_lost")
       ELSE UNCHANGED GAME_SESSIONS /\ Return(t, "KeyError")
  /\ UNCHANGED <<USERS_DB, boards, DATA_LOCK, ncmds, conn>>
  /\ Track(t)

\* ------------------------------------ handle_command, standard commands
\* line 272 (called from line 345): with DATA_LOCK (acquire)
GetStatsLock(t) ==
  /\ At(t, "gs_lock")
  /\ Acquire(t)
  /\ Goto(t, "gs_body")
  /\ UNCHANGED <<USERS_DB, GAME_SESSIONS, boards, ncmds, conn>>
  /\ Track(t)

\* lines 273-284 and the release; line 346 builds the text reply
GetStatsBody(t) ==
  /\ At(t, "gs_body")
  /\ DATA_LOCK = t
  /\ USERS_DB' = IF thr[t].uid \in DOMAIN USERS_DB THEN USERS_DB
                   ELSE DictSet(USERS_DB, thr[t].uid, NewStats)
  /\ DATA_LOCK' = 0
  /\ Return(t, "text_score")
  /\ UNCHANGED <<GAME_SESSIONS, boards, ncmds, conn>>
  /\ Track(t)

\* ------------------------------------------------------------ api_ladder
\* line 415: export[:50]
LadderLimit == 50

LadderKeyLessScoreOnly(a, b) == a.score < b.score

\* line 401: key=lambda x: (x['score'], x['wins']), tuples compare
\* lexicographically
LadderKeyLess(a, b) == a.score < b.score \/ (a.score = b.score /\ a.wins < b.wins)

\* line 401: list.sort(reverse=True) is stable, entries with equal keys keep
\* the order they had in the list
RECURSIVE InsertDesc(_, _)
InsertDesc(sorted, x) ==
  IF sorted = <<>> THEN <<x>>
  ELSE IF LadderKeyLess(Head(sorted), x) THEN <<x>> \o sorted
  ELSE <<Head(sorted)>> \o InsertDesc(Tail(sorted), x)

RECURSIVE SortDesc(_)
SortDesc(all_users) ==
  IF all_users = <<>> THEN <<>>
  ELSE InsertDesc(SortDesc(SubSeq(all_users, 1, Len(all_users) - 1)), all_users[Len(all_users)])

\* lines 406-408: int((wins / total_games) * 100), 0 without games
win_rate(u) == IF u.total_games > 0 THEN (u.wins * 100) \div u.total_games ELSE 0

\* lines 405-413: each entry is a copy of the record with rank and win_rate
Ranked(all_users) ==
  [i \in 1..Len(all_users) |->
     [score |-> all_users[i].score, wins |-> all_users[i].wins,
      losses |-> all_users[i].losses, bombs |-> all_users[i].bombs,
      total_games |-> all_users[i].total_games,
      rank |-> i, win_rate |-> win_rate(all_users[i])]]

\* line 415
Top(export) == SubSeq(export, 1, IF Len(export) < LadderLimit THEN Len(export) ELSE LadderLimit)

\* line 400: list(USERS_DB.values()) lists the records in insertion order,
\* which is any order of the keys
ValueOrders(d) ==
  {o \in [1..Cardinality(DOMAIN d) -> DOMAIN d] : \A i, j \in DOMAIN o : i # j => o[i] # o[j]}

\* a GET /api/ladder request is given to the first free request thread
LadderArrive(t) ==
  /\ At(t, "idle")
  /\ \A s \in Threads : s < t => ~At(s, "idle")
  /\ ncmds < MaxCmds
  /\ thr' = [thr EXCEPT ![t] = [IdleThread EXCEPT !.pc = "al_lock", !.cmd = "GET /api/ladder"]]
  /\ mutated' = [mutated EXCEPT ![t] = FALSE]
  /\ ncmds' = ncmds + 1
  /\ UNCHANGED <<USERS_DB, GAME_SESSIONS, boards, DATA_LOCK, conn>>

\* line 398: with DATA_LOCK (acquire)
ApiLadderLock(t) ==
  /\ At(t, "al_lock")
  /\ Acquire(t)
  /\ Goto(t, "al_body")
  /\ UNCHANGED <<USERS_DB, GAME_SESSIONS, boards, ncmds, conn>>
  /\ Track(t)

\* lines 400-415 and the release
ApiLadderBody(t) ==
  /\ At(t, "al_body")
  /\ \E o \in ValueOrders(USERS_DB) :
       thr' = [thr EXCEPT ![t].pc = "done", ![t].reply = "json_ladder",
                          ![t].export = Top(Ranked(SortDesc([i \in DOMAIN o |-> USERS_DB[o[i]]])))]
  /\ DATA_LOCK' = 0
  /\ UNCHANGED <<USERS_DB, GAME_SESSIONS, boards, ncmds, conn>>
  /\ Track(t)

\* ------------------------------------- update_stats, statement by statement
\* the (result, score_change) pairs line 327 can pass
StatsCalls == {<<"ACTIVE", SafeGain>>, <<"WON", WinGain>>, <<"LOST", -BombPenalty>>}

\* update_stats(u, result, score_change) is called on the first free thread
UpdateArrive(t, u, result, score_change) ==
  /\ At(t, "idle")
  /\ \A s \in Threads : s < t => ~At(s, "idle")
  /\ ncmds < MaxCmds
  /\ thr' = [thr EXCEPT ![t] = [IdleThread EXCEPT !.pc = "su_lock", !.uid = u, !.cmd = "update_stats",
                                                  !.a_status = result, !.a_gain = score_change]]
  /\ mutated' = [mutated EXCEPT ![t] = FALSE]
  /\ ncmds' = ncmds + 1
  /\ UNCHANGED <<USERS_DB, GAME_SESSIONS, boards, DATA_LOCK, conn>>

\* get_stats(u) is called on the first free thread
GetArrive(t, u) ==
  /\ At(t, "idle")
  /\ \A s \in Threads : s < t => ~At(s, "idle")
  /\ ncmds < MaxCmds
  /\ thr' = [thr EXCEPT ![t] = [IdleThread EXCEPT !.pc = "gs_lock", !.uid = u, !.cmd = "/score"]]
  /\ mutated' = [mutated EXCEPT ![t] = FALSE]
  /\ ncmds' = ncmds + 1
  /\ UNCHANGED <<USERS_DB, GAME_SESSIONS, boards, DATA_LOCK, conn>>

\* line 288: with DATA_LOCK (acquire); seen records the table the update
\* starts from
SuLock(t) ==
  /\ At(t, "su_lock")
  /\ Acquire(t)
  /\ thr' = [thr EXCEPT ![t].pc = "su_check", ![t].seen = <<USERS_DB>>]
  /\ UNCHANGED <<USERS_DB, GAME_SESSIONS, boards, ncmds, conn>>
  /\ Track(t)

SuCheckNested(t) ==
  /\ At(t, "su_check")
  /\ Goto(t, IF thr[t].uid \in DOMAIN USERS_DB THEN "su_read" ELSE "gs_lock")
  /\ UNCHANGED <<USERS_DB, GAME_SESSIONS, boards, DATA_LOCK, ncmds, conn>>
  /\ Track(t)

\* line 289: if uid in USERS_DB; without a record the with block ends
SuCheck(t) ==
  /\ At(t, "su_check")
  /\ IF thr[t].uid \in DOMAIN USERS_DB
       THEN Goto(t, "su_read") /\ UNCHANGED DATA_LOCK
       ELSE Return(t, "none") /\ DATA_LOCK' = 0
  /\ UNCHANGED <<USERS_DB, GAME_SESSIONS, boards, ncmds, conn>>
  /\ Track(t)

\* line 291, right-hand side: u['score'] is read
SuRead(t) ==
  /\ At(t, "su_read")
  /\ thr' = [thr EXCEPT ![t].pc = "su_write", ![t].tmp = USERS_DB[thr[t].uid].score]
  /\ UNCHANGED <<USERS_DB, GAME_SESSIONS, boards, DATA_LOCK, ncmds, conn>>
  /\ Track(t)

\* line 291: u['score'] = max(0, ... + score_change)
SuWrite(t) ==
  /\ At(t, "su_write")
  /\ USERS_DB' = [USERS_DB EXCEPT ![thr[t].uid].score = ScoreAfter(thr[t].tmp, thr[t].a_gain)]
  /\ Goto(t, "su_count")
  /\ UNCHANGED <<GAME_SESSIONS, boards, DATA_LOCK, ncmds, conn>>
  /\ Track(t)

\* lines 292-297: the counters
CountersAfter(u, result) ==
  [u EXCEPT !.wins = IF result = "WIN" THEN @ + 1 ELSE @,
            !.losses = IF result = "LOST" THEN @ + 1 ELSE @,
            !.bombs = IF result = "LOST" THEN @ + 1 ELSE @,
            !.total_games = IF result \in {"WIN", "LOST"} THEN @ + 1 ELSE @]

\* lines 292-297 and the release at the end of the with block
SuCount(t) ==
  /\ At(t, "su_count")
  /\ USERS_DB' = [USERS_DB EXCEPT ![thr[t].uid] = CountersAfter(@, thr[t].a_status)]
  /\ DATA_LOCK' = 0
  /\ Return(t, "none")
  /\ UNCHANGED <<GAME_SESSIONS, boards, ncmds, conn>>
  /\ Track(t)

\* line 394: the response is sent, the request thread is free again
Finish(t) ==
  /\ At(t, "done")
  /\ thr' = [thr EXCEPT ![t] = IdleThread]
  /\ mutated' = [mutated EXCEPT ![t] = FALSE]
  /\ UNCHANGED <<USERS_DB, GAME_SESSIONS, boards, DATA_LOCK, ncmds, conn>>

\* lines 360-374: login draws a fresh uid and calls get_stats (lines 272-284)
Login(u) ==
  /\ u \notin DOMAIN USERS_DB
  /\ DATA_LOCK = 0
  /\ USERS_DB' = DictSet(USERS_DB, u, NewStats)
  /\ UNCHANGED <<GAME_SESSIONS, boards, DATA_LOCK, thr, mutated, ncmds, conn>>

\* ------------------------------------------------------- specifications
Next ==
  \/ \E u \in Users : Login(u)
  \/ \E t \in Threads :
       \/ \E u \in Users, raw \in RawCmds : Begin(t, u, raw)
       \/ StartStore(t) \/ StartRender(t)
       \/ CheckIn(t) \/ CheckGet(t) \/ CheckStatus(t) \/ GetGame(t)
       \/ PmCheck(t) \/ PmReveal(t) \/ PmLost(t) \/ PmLostGain(t)
       \/ PmCount(t) \/ PmWon(t) \/ PmWonGain(t) \/ PmSafeGain(t)
       \/ ArgStatus(t) \/ ArgGain(t) \/ UpdateStatsLock(t) \/ UpdateStatsBody(t)
       \/ CheckWon(t) \/ DelWon(t) \/ CheckLost(t) \/ DelLost(t)
       \/ GetStatsLock(t) \/ GetStatsBody(t)
       \/ Finish(t)

Spec == Init /\ [][Next]_vars

\* Commands processed one at a time: a request begins only when no other is
\* in flight.
AllIdle == \A t \in Threads : At(t, "idle")

SeqBegin(t, u, raw) == AllIdle /\ Arrive(t, u, raw, TRUE)

SeqLogin(u) == AllIdle /\ Login(u)

SeqNext ==
  \/ \E u \in Users : SeqLogin(u)
  \/ \E t \in Threads :
       \/ \E u \in Users, raw \in RawCmds : SeqBegin(t, u, raw)
       \/ StartStore(t) \/ StartRender(t)
       \/ CheckIn(t) \/ CheckGet(t) \/ CheckStatus(t) \/ GetGame(t)
       \/ PmCheck(t) \/ PmReveal(t) \/ PmLost(t) \/ PmLostGain(t)
       \/ PmCount(t) \/ PmWon(t) \/ PmWonGain(t) \/ PmSafeGain(t)
       \/ ArgStatus(t) \/ ArgGain(t) \/ UpdateStatsLock(t) \/ UpdateStatsBody(t)
       \/ CheckWon(t) \/ DelWon(t) \/ CheckLost(t) \/ DelLost(t)
       \/ GetStatsLock(t) \/ GetStatsBody(t)
       \/ Finish(t)

SeqSpec == SeqInit /\ [][SeqNext]_vars

\* Two players at once: u1 (not yet registered) is served by request thread 1
\* and may send every kind of command, u2 (registered) is served by thread 2
\* and plays a game; the two requests interleave freely.
Players == {"u1", "u2"}
PlayerOf(t) == IF t = 1 THEN "u1" ELSE "u2"
IsoCmds == {"/bombchip", "/score", "/ladder", "hello", "1", "2"}
IsoCmdsOf(t) == IF t = 1 THEN IsoCmds ELSE {"/bombchip", "1", "2"}

IsoInit ==
  /\ USERS_DB = [u \in {"u2"} |-> Veteran]
  /\ GAME_SESSIONS = <<>>
  /\ boards = <<>>
  /\ DATA_LOCK = 0
  /\ thr = [t \in Threads |-> IdleThread]
  /\ mutated = [t \in Threads |-> FALSE]
  /\ ncmds = 0
  /\ conn = NoConnection

IsoBegin(t, raw) == Accept(t, PlayerOf(t), raw, FALSE)

IsoNext ==
  \E t \in Threads :
       \/ \E raw \in IsoCmdsOf(t) : IsoBegin(t, raw)
       \/ StartStore(t) \/ StartRender(t)
       \/ CheckIn(t) \/ CheckGet(t) \/ CheckStatus(t) \/ GetGame(t)
       \/ PmCheck(t) \/ PmReveal(t) \/ PmLost(t) \/ PmLostGain(t)
       \/ PmCount(t) \/ PmWon(t) \/ PmWonGain(t) \/ PmSafeGain(t)
       \/ ArgStatus(t) \/ ArgGain(t) \/ UpdateStatsLock(t) \/ UpdateStatsBody(t)
       \/ CheckWon(t) \/ DelWon(t) \/ CheckLost(t) \/ DelLost(t)
       \/ GetStatsLock(t) \/ GetStatsBody(t)
       \/ Finish(t)

IsoSpec == IsoInit /\ [][IsoNext]_vars

\* The leaderboard as a function of the table: USERS_DB holds any records
\* over three players, requests to /api/ladder read it.
LadderPlayers == {"u1", "u2", "u3"}
LadderRecords ==
  {[NewStats EXCEPT !.score = s, !.wins = w, !.total_games = w] : s \in {0, SafeGain}, w \in {0, 1}}
LadderTables == UNION {[D -> LadderRecords] : D \in SUBSET LadderPlayers}

LadderInit ==
  /\ USERS_DB \in LadderTables
  /\ GAME_SESSIONS = <<>>
  /\ boards = <<>>
  /\ DATA_LOCK = 0
  /\ thr = [t \in Threads |-> IdleThread]
  /\ mutated = [t \in Threads |-> FALSE]
  /\ ncmds = 0
  /\ conn = NoConnection

LadderNext ==
  \E t \in Threads :
       \/ LadderArrive(t)
       \/ ApiLadderLock(t) \/ ApiLadderBody(t)
       \/ Finish(t)

LadderSpec == LadderInit /\ [][LadderNext]_vars

\* The stats functions called from concurrent request threads in any
\* interleaving: update_stats statement by statement, get_stats, api_ladder.
StatsInit ==
  /\ USERS_DB = [u \in {"u1"} |-> Veteran]
  /\ GAME_SESSIONS = <<>>
  /\ boards = <<>>
  /\ DATA_LOCK = 0
  /\ thr = [t \in Threads |-> IdleThread]
  /\ mutated = [t \in Threads |-> FALSE]
  /\ ncmds = 0
  /\ conn = NoConnection

StatsNext ==
  \E t \in Threads :
       \/ \E u \in Players, c \in StatsCalls : UpdateArrive(t, u, c[1], c[2])
       \/ \E u \in Players : GetArrive(t, u)
       \/ LadderArrive(t)
       \/ SuLock(t) \/ SuCheck(t) \/ SuRead(t) \/ SuWrite(t) \/ SuCount(t)
       \/ GetStatsLock(t) \/ GetStatsBody(t)
       \/ ApiLadderLock(t) \/ ApiLadderBody(t)
       \/ Finish(t)

StatsSpec == StatsInit /\ [][StatsNext]_vars

\* Scheduling: a thread inside a with block keeps running, and a thread that
\* waits for DATA_LOCK gets it if the lock is free again and again.  Requests
\* need not arrive.
StatsRun(t) ==
  SuCheck(t) \/ SuRead(t) \/ SuWrite(t) \/ SuCount(t) \/ GetStatsBody(t) \/ ApiLadderBody(t)

StatsAcquire(t) == SuLock(t) \/ GetStatsLock(t) \/ ApiLadderLock(t)

StatsFairness == \A t \in Threads : WF_vars(StatsRun(t)) /\ SF_vars(StatsAcquire(t))

FairStatsSpec == StatsSpec /\ StatsFairness

\* ------------------------------------------------- Connection Supervisor
\* The life cycle of the chat connection: conn.state is the connection
\* state, conn.attempt numbers the connection attempts and conn.log lists,
\* per attempt, the requests sent and the login events received.  Heartbeats
\* and unrecognised inbound events leave all of this unchanged.
MaxAttempts == 3

Logged(c, events) ==
  [c EXCEPT !.log = @ \o [i \in DOMAIN events |-> [attempt |-> c.attempt, event |-> events[i]]]]

\* Disconnected -> Connecting, after the reconnect delay
OnActivate(c) == [c EXCEPT !.state = "Connecting", !.attempt = @ + 1]

\* Connecting -> Authenticating, the login request is sent at once
OnOpen(c) == [Logged(c, <<"send login">>) EXCEPT !.state = "Authenticating"]

\* Authenticating -> JoinedRoom, the join request is sent at once
OnLoginSuccess(c) ==
  [Logged(c, <<"recv login-success", "send room_join">>) EXCEPT !.state = "JoinedRoom"]

OnLoginFailureJoins(c) ==
  [Logged(c, <<"recv login-failure", "send room_join">>) EXCEPT !.state = "Disconnected"]

\* Authenticating -> Disconnected
OnLoginFailure(c) == [Logged(c, <<"recv login-failure">>) EXCEPT !.state = "Disconnected"]

\* any transport close or error
OnClose(c) == [c EXCEPT !.state = "Disconnected"]

SupActivate ==
  /\ conn.state = "Disconnected"
  /\ conn.attempt < MaxAttempts
  /\ conn' = OnActivate(conn)
  /\ UNCHANGED <<USERS_DB, GAME_SESSIONS, boards, DATA_LOCK, thr, mutated, ncmds>>

SupOpen ==
  /\ conn.state = "Connecting"
  /\ conn' = OnOpen(conn)
  /\ UNCHANGED <<USERS_DB, GAME_SESSIONS, boards, DATA_LOCK, thr, mutated, ncmds>>

SupLoginSuccess ==
  /\ conn.state = "Authenticating"
  /\ conn' = OnLoginSuccess(conn)
  /\ UNCHANGED <<USERS_DB, GAME_SESSIONS, boards, DATA_LOCK, thr, mutated, ncmds>>

SupLoginFailure ==
  /\ conn.state = "Authenticating"
  /\ conn' = OnLoginFailure(conn)
  /\ UNCHANGED <<USERS_DB, GAME_SESSIONS, boards, DATA_LOCK, thr, mutated, ncmds>>

SupClose ==
  /\ conn.state # "Disconnected"
  /\ conn' = OnClose(conn)
  /\ UNCHANGED <<USERS_DB, GAME_SESSIONS, boards, DATA_LOCK, thr, mutated, ncmds>>

SupNext == SupActivate \/ SupOpen \/ SupLoginSuccess \/ SupLoginFailure \/ SupClose

SupSpec == Init /\ [][SupNext]_vars

\* ================================================================ claims
Finished(t) == At(t, "done")
GameOf(t) == boards[thr[t].game]
NonBombRevealed(b) == Cardinality({i \in Chips : b.revealed[i] /\ b.grid[i] = 0})
BoardsOf(u) == {b \in DOMAIN boards : boards[b].user_id = u}
HasActiveGame(u) == u \in DOMAIN GAME_SESSIONS /\ boards[GAME_SESSIONS[u]].status = "ACTIVE"

\* C1: a start issued while GAME_SESSIONS holds an ACTIVE board for the key is
\* rejected: the step of line 305 creates no board and leaves the stored
\* board in place.
C1_StartRejectedWhileActive ==
  [][\A t \in Threads :
       (At(t, "start_store") /\ thr'[t].pc # "start_store" /\ HasActiveGame(thr[t].uid))
         => /\ Len(boards') = Len(boards)
            /\ thr[t].uid \in DOMAIN GAME_SESSIONS'
            /\ GAME_SESSIONS'[thr[t].uid] = GAME_SESSIONS[thr[t].uid]]_vars

\* C2: the first accepted move on a board (the only revealed cell is the one
\* just chosen) never has the result BOMB and never leaves the status LOST.
C2_FirstMoveNeverBomb ==
  \A t \in Threads :
    (Finished(t) /\ thr[t].res \in Accepted /\ RevealedCount(GameOf(t)) = 1)
      => (thr[t].res # "BOMB" /\ GameOf(t).status # "LOST")

\* C3: moves on one key serialize, so at most one terminal outcome is
\* recorded per board: a player's total_games, losses and wins never exceed
\* the number of boards created for that player.
C3_OneTerminalOutcomePerBoard ==
  \A u \in DOMAIN USERS_DB :
    /\ USERS_DB[u].total_games <= Cardinality(BoardsOf(u))
    /\ USERS_DB[u].losses <= Cardinality(BoardsOf(u))
    /\ USERS_DB[u].wins <= Cardinality(BoardsOf(u))

\* C4: a process_move call entered on a board whose status is no longer
\* ACTIVE is rejected: its result is none of SAFE, WIN, BOMB and the command
\* changes no board.
C4_InactiveBoardRejectsMoves ==
  \A t \in Threads :
    thr[t].enteredInactive => (thr[t].res \notin Accepted /\ ~mutated[t])

\* C5: with commands processed one at a time, between commands every board
\* stored in GAME_SESSIONS has status ACTIVE.
C5_StoredBoardsActive ==
  (\A t \in Threads : thr[t].pc \in {"idle", "done"})
    => \A u \in DOMAIN GAME_SESSIONS : boards[GAME_SESSIONS[u]].status = "ACTIVE"

\* C5 witness: a command has just ended a game with a loss and the entry of
\* its key is gone.
C5_Witness ==
  \E t \in Threads :
    /\ Finished(t) /\ thr[t].reply = "image_lost"
    /\ GameOf(t).status = "LOST"
    /\ thr[t].uid \notin DOMAIN GAME_SESSIONS

\* C6: the removal of lines 331/335 is only ever executed on the entry that
\* holds the board the move finished: the key is present and maps to that
\* board, never to a board a later start stored.
C6_RemovalOnlyOwnBoard ==
  [][\A t \in Threads :
       (thr[t].pc \in {"del_won", "del_lost"} /\ thr'[t].pc = "done")
         => (thr[t].uid \in DOMAIN GAME_SESSIONS /\ GAME_SESSIONS[thr[t].uid] = thr[t].game)]_vars

\* C7 (as amended): with commands processed one at a time, an accepted move
\* has the result WIN, and sets status WON, iff it is a safe reveal after
\* which the non-bomb cells revealed number total_chips - bomb_count, i.e.
\* all of them; no board is WON with fewer.
C7_WinIffAllSafeRevealed ==
  /\ \A t \in Threads :
       (Finished(t) /\ thr[t].res \in Accepted)
         => /\ (thr[t].res = "WIN") <=>
                 (GameOf(t).grid[thr[t].val] = 0
                    /\ NonBombRevealed(GameOf(t)) = total_chips - bomb_count)
            /\ (thr[t].res = "WIN") <=> (GameOf(t).status = "WON")
  /\ \A b \in DOMAIN boards :
       boards[b].status = "WON" => NonBombRevealed(boards[b]) = total_chips - bomb_count

\* C7 witness: a move has just won its game.
C7_Witness ==
  \E t \in Threads : Finished(t) /\ thr[t].res = "WIN" /\ GameOf(t).status = "WON"

\* C7 as stated: the result is WIN iff the safe reveal brings the number of
\* safe-revealed cells to size - 1.
C7_WinIffSizeMinusOne ==
  \A t \in Threads :
    (Finished(t) /\ thr[t].res \in Accepted)
      => ((thr[t].res = "WIN") <=>
            (GameOf(t).grid[thr[t].val] = 0 /\ NonBombRevealed(GameOf(t)) = total_chips - 1))

\* the fixed deltas of the claim
Delta(res) == IF res = "SAFE" THEN 10 ELSE IF res = "WIN" THEN 100 ELSE -50

\* C8 (as amended): with commands processed one at a time, an accepted move
\* of a player with a USERS_DB record sets the score to
\* max(0, score + delta), delta being +10 (SAFE), +100 (WIN) or -50 (BOMB),
\* applied once; a player without a record gets none.
C8_ScoreDeltaClamped ==
  \A t \in Threads :
    (Finished(t) /\ thr[t].res \in Accepted)
      => IF thr[t].pre = <<>>
           THEN thr[t].uid \notin DOMAIN USERS_DB
           ELSE /\ thr[t].uid \in DOMAIN USERS_DB
                /\ USERS_DB[thr[t].uid].score =
                     (IF thr[t].pre[1].score + Delta(thr[t].res) < 0 THEN 0
                      ELSE thr[t].pre[1].score + Delta(thr[t].res))

\* C8 witness: a bomb reveal has taken the full 50 points off a score that
\* was above 50.
C8_Witness ==
  \E t \in Threads :
    /\ Finished(t) /\ thr[t].res = "BOMB" /\ thr[t].pre # <<>>
    /\ thr[t].pre[1].score > 50
    /\ USERS_DB[thr[t].uid].score = thr[t].pre[1].score - 50

\* C8 as stated: every accepted move changes the recorded score by exactly
\* its delta.
C8_ScoreDeltaExact ==
  \A t \in Threads :
    (Finished(t) /\ thr[t].res \in Accepted /\ thr[t].pre # <<>>)
      => USERS_DB[thr[t].uid].score = thr[t].pre[1].score + Delta(thr[t].res)

\* C9: with commands processed one at a time, a move that must be rejected
\* (index out of range, chip already revealed, no active game of the sender)
\* is answered with informational text only and changes no board, no stats
\* and no session entry.
C9_RejectedMoveChangesNothing ==
  \A t \in Threads :
    (Finished(t) /\ thr[t].expectReject)
      => /\ thr[t].reply \in {"text_invalid", "text_already", "text_unknown"}
         /\ thr[t].res \notin Accepted
         /\ ~mutated[t]
         /\ thr[t].pre # <<>> => USERS_DB[thr[t].uid] = thr[t].pre[1]

\* C9 witness: an already-revealed chip of an active game was replayed and
\* answered ALREADY_OPEN.
C9_Witness ==
  \E t \in Threads :
    /\ Finished(t) /\ thr[t].expectReject /\ thr[t].res = "ALREADY_OPEN"
    /\ HasActiveGame(thr[t].uid) /\ GAME_SESSIONS[thr[t].uid] = thr[t].game
    /\ GameOf(t).revealed[thr[t].val]

\* C10: a body that is neither the start keyword, nor a number, nor a
\* score/ladder keyword gets no reply.
C10_UnknownTextSilent ==
  \A t \in Threads :
    (Finished(t) /\ ~IsInt(thr[t].cmd)
       /\ thr[t].cmd \notin {"/bombchip", "/score", "/ladder", "/leaderboard"})
      => thr[t].reply = ""

\* C11: every step that changes GAME_SESSIONS or a stored board is taken by
\* a thread that holds DATA_LOCK.
C11_SessionMutationsUnderLock ==
  [][(GAME_SESSIONS' # GAME_SESSIONS \/ boards' # boards)
       => (DATA_LOCK \in Threads /\ thr'[DATA_LOCK] # thr[DATA_LOCK])]_vars

\* C12: a command whose move was accepted (SAFE, WIN or BOMB) ends with one
\* of the three move replies, never with an unhandled error.
C12_AcceptedMoveGetsReply ==
  \A t \in Threads :
    (Finished(t) /\ thr[t].res \in Accepted)
      => thr[t].reply \in {"image_safe", "image_win", "image_lost"}

\* What a player owns: the registry entry, the boards and the stats record.
EntryOf(d, u) == IF u \in DOMAIN d THEN <<d[u]>> ELSE <<>>
OwnedBoards(bs, u) == [b \in {x \in DOMAIN bs : bs[x].user_id = u} |-> bs[b]]
ActingPlayer(t) == IF At(t, "idle") THEN thr'[t].uid ELSE thr[t].uid

\* C13: a step of a command handled for player A leaves the GAME_SESSIONS
\* entry, the boards and the USERS_DB record of every other player unchanged.
C13_OtherPlayersUntouched ==
  [][\A t \in Threads :
       thr'[t] # thr[t] =>
         \A B \in Players \ {ActingPlayer(t)} :
           /\ EntryOf(GAME_SESSIONS', B) = EntryOf(GAME_SESSIONS, B)
           /\ OwnedBoards(boards', B) = OwnedBoards(boards, B)
           /\ EntryOf(USERS_DB', B) = EntryOf(USERS_DB, B)]_vars

\* u1 has lost a game and its entry is gone while u2's game is still stored.
C13_Witness ==
  /\ Finished(1) /\ thr[1].res = "BOMB"
  /\ "u1" \notin DOMAIN GAME_SESSIONS
  /\ "u2" \in DOMAIN GAME_SESSIONS
  /\ boards[GAME_SESSIONS["u2"]].user_id = "u2"

\* C14: the reveal step of an accepted move flips exactly the chosen cell of
\* its board from hidden to revealed; no step changes any grid or any other
\* revealed flag; once process_move has returned BOMB the board is LOST, the
\* chosen cell is the bomb and the cells not yet revealed are still hidden.
C14_RevealOnlyChosenCell ==
  [][/\ \A b \in DOMAIN boards :
          /\ boards'[b].grid = boards[b].grid
          /\ boards'[b].revealed # boards[b].revealed
               => \E t \in Threads :
                    /\ At(t, "pm_reveal") /\ thr'[t] # thr[t] /\ thr[t].game = b
                    /\ ~boards[b].revealed[thr[t].val]
                    /\ \A i \in Chips :
                         boards'[b].revealed[i] = (boards[b].revealed[i] \/ i = thr[t].val)
     /\ \A t \in Threads :
          thr'[t].res = "BOMB"
            => /\ boards'[thr'[t].game].status = "LOST"
               /\ boards'[thr'[t].game].grid[thr'[t].val] = 1
               /\ boards'[thr'[t].game].revealed[thr'[t].val]]_vars

\* A move has hit a bomb on a board with an earlier safe reveal: two cells are
\* revealed, the others are still hidden.
C14_Witness ==
  \E t \in Threads :
    /\ Finished(t) /\ thr[t].res = "BOMB"
    /\ GameOf(t).status = "LOST"
    /\ RevealedCount(GameOf(t)) = 2
    /\ NonBombRevealed(GameOf(t)) = 1

BoardKeywords == {"/ladder", "/leaderboard", "/score"}

\* C15: every step of a command whose body is '/ladder', '/leaderboard' or
\* '/score' leaves GAME_SESSIONS and all boards unchanged, and the command
\* ends with the link reply or the score text.
C15_KeywordsNoBoardInteraction ==
  [][\A t \in Threads :
       (thr'[t] # thr[t] /\ ~At(t, "idle") /\ thr[t].cmd \in BoardKeywords)
         => /\ GAME_SESSIONS' = GAME_SESSIONS
            /\ boards' = boards
            /\ thr'[t].pc = "done" => thr'[t].reply \in {"link", "text_score"}]_vars

\* C18: for a registered player, the move that wins a game raises wins and
\* total_games by one each, the move that loses raises losses, bombs and
\* total_games by one each, and a SAFE move leaves all four counters alone.
C18_TerminalOutcomesRecorded ==
  \A t \in Threads :
    (Finished(t) /\ thr[t].res \in Accepted /\ thr[t].pre # <<>>)
      => LET old == thr[t].pre[1]
             new == USERS_DB[thr[t].uid]
             won == IF thr[t].res = "WIN" THEN 1 ELSE 0
             lost == IF thr[t].res = "BOMB" THEN 1 ELSE 0
         IN /\ new.wins = old.wins + won
            /\ new.losses = old.losses + lost
            /\ new.bombs = old.bombs + lost
            /\ new.total_games = old.total_games + won + lost

\* C20: no stored score is negative.
C20_ScoreNeverNegative ==
  \A u \in DOMAIN USERS_DB : USERS_DB[u].score >= 0

\* A bomb reveal at a score below 50 has left the score at 0.
C20_Witness ==
  \E t \in Threads :
    /\ Finished(t) /\ thr[t].res = "BOMB" /\ thr[t].pre # <<>>
    /\ thr[t].pre[1].score < BombPenalty
    /\ USERS_DB[thr[t].uid].score = 0
    /\ USERS_DB[thr[t].uid].losses = 1

StatsOf(e) ==
  [score |-> e.score, wins |-> e.wins, losses |-> e.losses, bombs |-> e.bombs,
   total_games |-> e.total_games]
LadderOf(t) == thr[t].export

\* C16: the list returned by api_ladder holds every record of USERS_DB once,
\* ordered by score descending and, among equal scores, by wins descending,
\* and its i-th entry carries rank i.
C16_LadderSortedAndRanked ==
  \A t \in Threads :
    (Finished(t) /\ thr[t].reply = "json_ladder")
      => /\ Len(LadderOf(t)) = Cardinality(DOMAIN USERS_DB)
         /\ \A u \in DOMAIN USERS_DB :
              Cardinality({i \in DOMAIN LadderOf(t) : StatsOf(LadderOf(t)[i]) = USERS_DB[u]})
                = Cardinality({v \in DOMAIN USERS_DB : USERS_DB[v] = USERS_DB[u]})
         /\ \A i \in DOMAIN LadderOf(t) : LadderOf(t)[i].rank = i
         /\ \A i, j \in DOMAIN LadderOf(t) :
              i < j => \/ LadderOf(t)[i].score > LadderOf(t)[j].score
                       \/ /\ LadderOf(t)[i].score = LadderOf(t)[j].score
                          /\ LadderOf(t)[i].wins >= LadderOf(t)[j].wins

\* A ladder of three players in which the first two tie on score and wins
\* decides, and the third has a lower score.
C16_Witness ==
  \E t \in Threads :
    /\ Finished(t) /\ thr[t].reply = "json_ladder"
    /\ Len(LadderOf(t)) = 3
    /\ LadderOf(t)[1].score = LadderOf(t)[2].score
    /\ LadderOf(t)[1].wins > LadderOf(t)[2].wins
    /\ LadderOf(t)[3].score < LadderOf(t)[2].score
    /\ LadderOf(t)[3].wins = 1
    /\ LadderOf(t)[3].rank = 3

\* C19: USERS_DB changes only in steps of the thread that holds DATA_LOCK;
\* when an update_stats call returns, the table is the table the call found
\* at its start with that one update applied whole; api_ladder never reads a
\* table whose score is written while the counters of the same update are
\* still pending.
C19_StatsUpdatesAtomic ==
  [][/\ USERS_DB' # USERS_DB
          => (DATA_LOCK \in Threads /\ thr'[DATA_LOCK] # thr[DATA_LOCK])
     /\ \A t \in Threads :
          /\ (thr[t].pc \in {"su_check", "su_count"} /\ thr'[t].pc = "done")
               => USERS_DB' =
                    (IF thr[t].uid \in DOMAIN thr[t].seen[1]
                       THEN [thr[t].seen[1] EXCEPT ![thr[t].uid] =
                               StatsAfter(@, thr[t].a_status, thr[t].a_gain)]
                       ELSE thr[t].seen[1])
          /\ (At(t, "al_body") /\ thr'[t].pc = "done")
               => \A s \in Threads : thr[s].pc # "su_count"]_vars

\* One thread is in the middle of a losing update (score written, counters
\* pending) while the other waits for the lock to update the same player.
C19_Witness ==
  \E t, s \in Threads :
    /\ At(t, "su_count") /\ thr[t].a_status = "LOST"
    /\ USERS_DB[thr[t].uid].score # thr[t].seen[1][thr[t].uid].score
    /\ At(s, "su_lock") /\ thr[s].uid = thr[t].uid

EventsOf(c, a) == {i \in DOMAIN c.log : c.log[i].attempt = a}
HasEvent(c, a, e) == \E i \in EventsOf(c, a) : c.log[i].event = e

\* C17: a login-failure event received while Authenticating leaves the
\* connection Disconnected; a room_join is in the log of an attempt only
\* after a login-success of that attempt, and never in the log of an attempt
\* whose login failed.
C17_NoJoinAfterLoginFailure ==
  [][/\ (conn.state = "Authenticating" /\ HasEvent(conn', conn.attempt, "recv login-failure"))
          => conn'.state = "Disconnected"
     /\ \A i \in DOMAIN conn'.log :
          conn'.log[i].event = "send room_join"
            => /\ \E j \in 1..(i - 1) :
                    conn'.log[j] = [attempt |-> conn'.log[i].attempt, event |-> "recv login-success"]
               /\ ~HasEvent(conn', conn'.log[i].attempt, "recv login-failure")]_vars

\* The first attempt ended in a login failure without a join, the second
\* attempt logged in and joined the room.
C17_Witness ==
  /\ conn.state = "JoinedRoom" /\ conn.attempt = 2
  /\ HasEvent(conn, 1, "recv login-failure")
  /\ ~HasEvent(conn, 1, "send room_join")
  /\ HasEvent(conn, 2, "send room_join")

\* C21: no step of a command whose move returned SAFE changes GAME_SESSIONS,
\* such a command ends with the progress image while the sender's key still
\* maps to the board it moved on, and a key leaves GAME_SESSIONS only in a
\* step of a command whose move returned WIN or BOMB.
C21_SafeMoveKeepsSession ==
  [][\A t \in Threads :
       thr'[t] # thr[t] =>
         /\ thr[t].res = "SAFE"
              => /\ GAME_SESSIONS' = GAME_SESSIONS
                 /\ thr'[t].pc = "done"
                      => /\ thr'[t].reply = "image_safe"
                         /\ thr[t].uid \in DOMAIN GAME_SESSIONS
                         /\ GAME_SESSIONS[thr[t].uid] = thr[t].game
         /\ DOMAIN GAME_SESSIONS' # DOMAIN GAME_SESSIONS /\ ~(DOMAIN GAME_SESSIONS \subseteq DOMAIN GAME_SESSIONS')
              => thr[t].res \in {"WIN", "BOMB"}]_vars

Quiescent == \A t \in Threads : thr[t].pc \in {"idle", "done"}

\* C22: with commands processed one at a time, between commands every ACTIVE
\* board in GAME_SESSIONS has only non-bomb cells revealed and fewer of them
\* than there are non-bomb cells; no board ever has more cells revealed than
\* there are non-bomb cells, and a board with that many is not ACTIVE, so a
\* game is over after at most total_chips - bomb_count accepted moves.
C22_ActiveBoardsUnfinished ==
  Quiescent =>
    /\ \A u \in DOMAIN GAME_SESSIONS :
         boards[GAME_SESSIONS[u]].status = "ACTIVE"
           => /\ \A i \in Chips :
                   boards[GAME_SESSIONS[u]].revealed[i] => boards[GAME_SESSIONS[u]].grid[i] = 0
              /\ RevealedCount(boards[GAME_SESSIONS[u]]) < safe_chips_total
    /\ \A b \in DOMAIN boards :
         /\ RevealedCount(boards[b]) <= safe_chips_total
         /\ RevealedCount(boards[b]) = safe_chips_total => boards[b].status # "ACTIVE"

\* An ACTIVE stored board one safe reveal short of the win.
C22_Witness ==
  /\ Quiescent
  /\ \E u \in DOMAIN GAME_SESSIONS :
       /\ boards[GAME_SESSIONS[u]].status = "ACTIVE"
       /\ RevealedCount(boards[GAME_SESSIONS[u]]) = safe_chips_total - 1
       /\ \E t \in Threads : Finished(t) /\ thr[t].res = "SAFE"

\* C23: every record of USERS_DB has total_games = wins + losses and
\* bombs = losses (update_stats writes the counters of one update together,
\* inside DATA_LOCK).
C23_CountersConsistent ==
  \A u \in DOMAIN USERS_DB :
    /\ USERS_DB[u].total_games = USERS_DB[u].wins + USERS_DB[u].losses
    /\ USERS_DB[u].bombs = USERS_DB[u].losses

\* A lost game has been recorded: one loss, one bomb, one game.
C23_Witness ==
  \E t \in Threads :
    /\ Finished(t) /\ thr[t].res = "BOMB" /\ thr[t].pre # <<>>
    /\ USERS_DB[thr[t].uid].losses = thr[t].pre[1].losses + 1
    /\ USERS_DB[thr[t].uid].bombs = 1
    /\ USERS_DB[thr[t].uid].total_games = 1

InProcessMove ==
  {"pm_check", "pm_reveal", "pm_lost", "pm_lost_gain", "pm_count", "pm_won",
   "pm_won_gain", "pm_safe_gain"}

\* C24: the board stored under a key always records that key as its owner;
\* the board handle_command passes to process_move is the one stored under
\* the sender's key at that moment, and while process_move runs its board is
\* owned by the sender.
C24_MoveOnlyOnOwnBoard ==
  [][/\ \A u \in DOMAIN GAME_SESSIONS' : boards'[GAME_SESSIONS'[u]].user_id = u
     /\ \A t \in Threads :
          /\ (At(t, "get_game") /\ thr'[t].pc = "pm_check")
               => (thr[t].uid \in DOMAIN GAME_SESSIONS /\ thr'[t].game = GAME_SESSIONS[thr[t].uid])
          /\ thr'[t].pc \in InProcessMove
               => boards'[thr'[t].game].user_id = thr'[t].uid]_vars

\* Both players have a board stored and u1's move is being applied to u1's.
C24_Witness ==
  /\ At(1, "pm_reveal") /\ thr[1].uid = "u1"
  /\ "u1" \in DOMAIN GAME_SESSIONS /\ "u2" \in DOMAIN GAME_SESSIONS
  /\ GAME_SESSIONS["u1"] # GAME_SESSIONS["u2"]
  /\ thr[1].game = GAME_SESSIONS["u1"]

WaitsForLock(t) == thr[t].pc \in {"su_lock", "gs_lock", "al_lock"}

\* C25: DATA_LOCK is taken only when it is free and never by a thread that
\* holds it; under fair scheduling a thread that holds the lock releases it,
\* a thread that waits for the lock gets it, and every call that has started
\* returns.
C25_LockNeverDeadlocks ==
  /\ [][\A t \in Threads :
          /\ (DATA_LOCK' = t /\ DATA_LOCK # t) => (DATA_LOCK = 0 /\ WaitsForLock(t))
          /\ WaitsForLock(t) => DATA_LOCK # t]_vars
  /\ \A t \in Threads :
       /\ (DATA_LOCK = t) ~> (DATA_LOCK # t)
       /\ WaitsForLock(t) ~> (DATA_LOCK = t)
       /\ ~At(t, "idle") ~> At(t, "done")

\* One thread waits for the lock while the other holds it in the middle of
\* an update.
C25_Witness ==
  \E t, s \in Threads :
    /\ WaitsForLock(t)
    /\ DATA_LOCK = s /\ s # t
    /\ At(s, "su_write")

====
